---------------------------- MODULE Spec2Model ----------------------------
(***************************************************************************)
(* A model of the prime sieve of boost/math/special_functions/             *)
(* prime_sieve.hpp: linear_sieve, mask_sieve, segmented_sieve,             *)
(* sequential_segmented_sieve, prime_sieve and prime_range.                *)
(*                                                                         *)
(* A behaviour is one call of one of these functions.  Integer is a signed *)
(* type wide enough that no arithmetic of the modelled range overflows     *)
(* (int64_t), except in the calls of sequential_segmented_sieve that are   *)
(* run with an unsigned Integer of IntegerBits bits, whose sums wrap.      *)
(* The two tuning constants of the source, linear_sieve_limit (4096) and   *)
(* L1_SIZE (32768), are scaled down so that every dispatch branch and      *)
(* several windows are reached by small arguments; all the arithmetic on   *)
(* them is the arithmetic of the source.  A window task may end with an    *)
(* exception; nothing else of the environment fails.                       *)
(*                                                                         *)
(* IntervalSieve lives in interval_sieve.hpp, which is not part of the     *)
(* sources at hand: it is modelled from section 4.2 of the specification.  *)
(***************************************************************************)
EXTENDS Integers, Sequences, FiniteSets, TLC

VARIABLES
    call,            \* the call under study: [op, policy, lo, hi, prior]
    garbage,         \* the value an out-of-bounds read of the heap returns
    pc,              \* position of the calling thread
    status,          \* "running", "done", "ub", "error", "terminated", "hang"
    out,             \* the caller's output container
    ls,              \* linear_sieve's frame: [ub, i, k, ld, buf]
    mk,              \* mask_sieve's frame: [primes, is_prime, cur]
    sg,              \* segmented_sieve's frame (the 4-argument overload)
    passes,          \* the 4-argument passes still to run, and what follows
    base,            \* the 3-argument overload's local vector `primes`
    small_primes,    \* prime_sieve / prime_range: the vector of thread t1
    t1,              \* thread t1: "none", "running", "done"
    t2,              \* thread t2: "none", "running", "done"
    pass,            \* history: the segmented pass under way or last run
    windows,         \* history: the windows that pass has formed, in order
    finished,        \* history: its window tasks, in the order they ended
    eu               \* Euclid_gcd's frame: [a, b]

\* The history variables: no action reads them.
hist == << pass, windows, finished >>

vars == << call, garbage, pc, status, out, ls, mk, sg, passes, base,
           small_primes, t1, t2, hist, eu >>

---------------------------------------------------------------------------
(* Bounds of the model. *)

\* linear_sieve_limit<Integer>, 4096 in the source, scaled down.
linear_sieve_limit == 5

\* L1_SIZE, 32768 in the source, scaled down; interval is L1_SIZE * 8.
L1_SIZE == 1

\* The largest lower and upper bound a call is given.
MaxN == 25

\* The largest upper bound mask_sieve is given.
MaxMask == 13

\* The largest value the output container holds before the call.
MaxPrior == 9

\* The width in bits of the unsigned Integer that sequential_segmented_sieve
\* is also run with.
IntegerBits == 5

\* The largest argument Euclid_gcd is given.
MaxGcd == 12

\* Out-of-bounds reads return a value of -1 .. MaxGarbage.
MaxGarbage == 1

\* std::thread::hardware_concurrency() of the machine.
HardwareConcurrency == 2

---------------------------------------------------------------------------
(* Arithmetic helpers. *)

Min(a, b) == IF a < b THEN a ELSE b

Max(a, b) == IF a > b THEN a ELSE b

\* C++ integer division truncates toward zero.
TruncDiv(a, b) == IF a >= 0 THEN a \div b ELSE -((-a) \div b)

\* static_cast<std::size_t>(x) of a negative x is 2^64 + x: a count that no
\* allocation of the program survives and no loop of it finishes.
TooBig(x) == x < 0

\* static_cast<Integer>(std::floor(std::sqrt(static_cast<double>(x)))), x >= 0.
FloorSqrt(x) == CHOOSE r \in 0..x : r * r <= x /\ (r + 1) * (r + 1) > x

\* The limit every caller computes: floor(sqrt(upper_bound)) + 1.
SqrtLimit(upper_bound) == FloorSqrt(upper_bound) + 1

\* floor(c * x / log(x)) with c = 30 * log(113) / 113, tabulated for
\* x = 0, 2, 3, ..., 64 (entry x + 1); x = 1 divides by log(1) = 0.
PrimeCountTable ==
    << 0, 0, 3, 3, 3, 3, 4, 4, 4, 5, 5, 5, 6, 6, 6, 6, 7, 7, 7, 8, 8, 8, 8,
       9, 9, 9, 10, 10, 10, 10, 11, 11, 11, 11, 12, 12, 12, 12, 13, 13, 13,
       13, 14, 14, 14, 14, 15, 15, 15, 15, 16, 16, 16, 16, 16, 17, 17, 17,
       17, 18, 18, 18, 18, 19, 19 >>

upper_bound_prime_count(x) == PrimeCountTable[x + 1]

\* floor(10^6 * x / log(x)) for x = 0, 2, 3, ..., 64 (entry x + 1).
XOverLogTable ==
    << 0, 0, 2885390, 2730717, 2885390, 3106674, 3348663, 3597288, 3847186,
       4096076, 4342944, 4587356, 4829155, 5068326, 5304924, 5539040,
       5770780, 6000254, 6227572, 6452842, 6676164, 6897633, 7117339,
       7335366, 7551791, 7766686, 7980119, 8192153, 8402845, 8612251,
       8820423, 9027406, 9233248, 9437989, 9641668, 9844324, 10045991,
       10246702, 10446487, 10645378, 10843401, 11040582, 11236948, 11432521,
       11627324, 11821378, 12014705, 12207324, 12399252, 12590509, 12781110,
       12971073, 13160413, 13349144, 13537281, 13724838, 13911827, 14098262,
       14284155, 14469517, 14654360, 14838694, 15022529, 15205877, 15388747 >>

\* reserve(static_cast<std::size_t>(x / log(x))): undefined when the
\* quotient is infinite (x = 1); x = 0 gives -0.0, which converts to 0.
ReserveUB(x) == x = 1

\* primes_in_range: static_cast<std::size_t>(hi / log(hi) - lo / log(lo)) is
\* undefined when the difference is infinite, NaN or at most -1.  x / log(x)
\* grows with x from 3 on, so the difference is not negative for
\* 3 <= lo <= hi, which is all that is needed above the table.
PrimesInRangeUB(lo, hi) ==
    \/ lo = 1
    \/ hi = 1
    \/ /\ ~(3 <= lo /\ lo <= hi)
       /\ XOverLogTable[hi + 1] - XOverLogTable[lo + 1] <= -1000000

\* The primes, for stating what a sieve should produce.
IsPrime(n) == n >= 2 /\ \A d \in 2..(n - 1) : n % d # 0

RECURSIVE PrimesIn(_, _)
PrimesIn(lo, hi) ==
    IF lo >= hi THEN << >>
    ELSE IF IsPrime(lo) THEN << lo >> \o PrimesIn(lo + 1, hi)
    ELSE PrimesIn(lo + 1, hi)

StrictlyIncreasing(s) == \A a \in 1..(Len(s) - 1) : s[a] < s[a + 1]

---------------------------------------------------------------------------
(* linear_sieve and linear_sieve_container. *)

\* Reading element idx (from 0) of a buffer: what lies behind its end is
\* whatever the heap holds there.
ReadAt(buf, idx, g) == IF idx < Len(buf) THEN buf[idx + 1] ELSE g

\* Container::resize(n): the first n elements kept, new ones value-initialised.
Resize(c, n) == [a \in 1..n |-> IF a <= Len(c) THEN c[a] ELSE 0]

\* The frame of linear_sieve on entry: i = 2, the table zeroed, k = the
\* number of primes written so far (resultant_primes - first).
LinearFrame(upper_bound, storage) ==
    [ ub  |-> upper_bound,
      i   |-> 2,
      k   |-> 0,
      ld  |-> [x \in 0..upper_bound |-> 0],
      buf |-> storage ]

\* The inner loop.  resultant_primes has already been advanced past the k
\* primes written, so resultant_primes[j] is element k + j of the buffer.
\* The result is [ok, ld]; ok is FALSE when the table is written out of
\* bounds.
RECURSIVE LinearInner(_, _, _, _, _)
LinearInner(j, f, k, ld, g) ==
    LET v == ReadAt(f.buf, k + j, g)
    IN  IF  /\ j < k
            /\ f.i * v <= f.ub
            /\ v <= ld[f.i]
            /\ j < f.ub + 1
        THEN IF f.i * v < 0
             THEN [ok |-> FALSE, ld |-> ld]
             ELSE LinearInner(j + 1, f, k, [ld EXCEPT ![f.i * v] = v], g)
        ELSE [ok |-> TRUE, ld |-> ld]

\* One iteration of the outer loop, for i < upper_bound.  The result is
\* [ok, f]; ok is FALSE when the iteration writes out of bounds.
LinearStep(f, g) ==
    LET found == f.ld[f.i] = 0
        ld1   == IF found THEN [f.ld EXCEPT ![f.i] = f.i] ELSE f.ld
        k1    == IF found THEN f.k + 1 ELSE f.k
    IN  IF found /\ f.k >= Len(f.buf)
        THEN [ok |-> FALSE, f |-> f]
        ELSE LET buf1 == IF found THEN [f.buf EXCEPT ![f.k + 1] = f.i]
                                  ELSE f.buf
                 f1   == [f EXCEPT !.buf = buf1]
                 r    == LinearInner(0, f1, k1, ld1, g)
             IN  [ ok |-> r.ok,
                   f  |-> [f1 EXCEPT !.i = f.i + 1, !.k = k1, !.ld = r.ld] ]

\* linear_sieve: the outer loop run to its end.
RECURSIVE linear_sieve(_, _)
linear_sieve(f, g) ==
    IF f.i >= f.ub THEN [ok |-> TRUE, f |-> f]
    ELSE LET r == LinearStep(f, g)
         IN  IF r.ok THEN linear_sieve(r.f, g) ELSE r

\* upper_bound_prime_count is undefined for 1 (a division by log(1) = 0,
\* the infinite quotient converted to Integer) and for negative arguments.
CountUB(upper_bound) == upper_bound = 1 \/ upper_bound < 0

\* The storage linear_sieve_container hands to linear_sieve.
ContainerStorage(upper_bound, c) ==
    Resize(c, upper_bound_prime_count(upper_bound))

\* linear_sieve_container: [st, v], st = "ub" on undefined behaviour.
linear_sieve_container(upper_bound, c, g) ==
    IF CountUB(upper_bound) THEN [st |-> "ub", v |-> c]
    ELSE LET r == linear_sieve(LinearFrame(upper_bound,
                                  ContainerStorage(upper_bound, c)), g)
         IN  IF r.ok THEN [st |-> "ok", v |-> SubSeq(r.f.buf, 1, r.f.k)]
             ELSE [st |-> "ub", v |-> c]

---------------------------------------------------------------------------
(* IntervalSieve, from section 4.2 of the specification. *)

\* Base prime p clears v: v is a multiple of p, at or after p * p.
Cleared(v, p) == p > 0 /\ v % p = 0 /\ v >= p * p

\* v survives the sieve of the window that starts at lo.
Survives(v, lo, primes) ==
    /\ ~(lo = 1 /\ v = 1)
    /\ \A a \in 1..Len(primes) : ~Cleared(v, primes[a])

\* The values of [lo, hi) that survive, ascending.
RECURSIVE IntervalSieve(_, _, _)
IntervalSieve(lo, hi, primes) ==
    IF lo >= hi THEN << >>
    ELSE IntervalSieve(lo, hi - 1, primes)
         \o (IF Survives(hi - 1, lo, primes) THEN << hi - 1 >> ELSE << >>)

---------------------------------------------------------------------------
(* The calls, and the state before one. *)

\* const Integer interval {L1_SIZE * 8};
interval == L1_SIZE * 8

Garbage == (-1)..MaxGarbage

Policies == {"seq", "par"}

\* What the output container holds before the call: nothing, or two values.
Prior == { << >>, << MaxPrior, 2 >> }

\* Unsigned arithmetic of IntegerBits bits: sums wrap around at Modulus.
Modulus == 2 ^ IntegerBits

WrapAdd(a, b) == (a + b) % Modulus

\* An upper bound whose square root lies above the square of the linear
\* limit: the pass that extends the base primes then has windows above
\* that square.
LargeBound ==
    (linear_sieve_limit * linear_sieve_limit + 1)
    * (linear_sieve_limit * linear_sieve_limit + 1)

Calls ==
    [op : {"linear_sieve"}, policy : {"seq"}, lo : {0}, hi : 0..MaxN,
     prior : Prior]
    \cup { c \in [op : {"mask_sieve"}, policy : {"seq"},
                  lo : 0..MaxMask, hi : 0..MaxMask, prior : Prior] :
             c.lo <= c.hi }
    \cup [op : {"segmented_sieve"}, policy : {"par"},
          lo : 0..MaxN, hi : 0..MaxN, prior : Prior]
    \cup [op : {"segmented_sieve"}, policy : {"par"},
          lo : {LargeBound - 3}, hi : {LargeBound}, prior : Prior]
    \cup { c \in [op : {"sequential_segmented_sieve"}, policy : {"seq"},
                  lo : 0..(Modulus - 1), hi : 0..(Modulus - 1),
                  prior : {<< >>}] : c.lo <= c.hi }
    \cup [op : {"prime_sieve"}, policy : Policies, lo : {0}, hi : 0..MaxN,
          prior : Prior]
    \cup [op : {"prime_range"}, policy : Policies,
          lo : 0..MaxN, hi : 0..MaxN, prior : Prior]

NoLs == LinearFrame(0, << >>)

NoMk == [primes |-> << >>, is_prime |-> << >>, cur |-> << >>]

NoSg == [ phase |-> "off", owner |-> "main", dest |-> "out",
          lower |-> 0, upper |-> 0, cur_lo |-> 0, cur_hi |-> 0,
          ranges |-> 0, i |-> 0, prime_vectors |-> << >>,
          future_manager |-> << >>, tasks |-> << >>, f |-> 1 ]

NoThread == [st |-> "none", lo |-> 0, hi |-> 0]

NoEu == [a |-> 0, b |-> 0]

NoPass == [kind |-> "none", lo |-> 0, hi |-> 0, complete |-> FALSE]

Init ==
    /\ call \in Calls
    /\ garbage \in Garbage
    /\ pc = "start"
    /\ status = "running"
    /\ out = call.prior
    /\ ls = NoLs
    /\ mk = NoMk
    /\ sg = NoSg
    /\ passes = << >>
    /\ base = << >>
    /\ small_primes = << >>
    /\ t1 = NoThread
    /\ t2 = NoThread
    /\ pass = NoPass
    /\ windows = << >>
    /\ finished = << >>
    /\ eu = NoEu

\* The call returns normally.
Return == pc' = "done" /\ status' = "done"

\* The call ends in undefined behaviour, an exception, std::terminate, or
\* a loop of about 2^64 iterations.
Abort(how) == pc' = pc /\ status' = how

---------------------------------------------------------------------------
(* linear_sieve_container, one iteration of linear_sieve's loop at a time. *)

LinearStart ==
    /\ status = "running" /\ pc = "start" /\ call.op = "linear_sieve"
    /\ IF CountUB(call.hi)
       THEN Abort("ub") /\ ls' = ls
       ELSE /\ ls' = LinearFrame(call.hi, ContainerStorage(call.hi, out))
            /\ pc' = "ls_loop"
            /\ status' = status
    /\ UNCHANGED << call, garbage, eu, out, mk, sg, passes, base, small_primes,
                    t1, t2, hist >>

LinearIter ==
    /\ status = "running" /\ pc = "ls_loop" /\ ls.i < ls.ub
    /\ LET r == LinearStep(ls, garbage)
       IN  IF r.ok
           THEN ls' = r.f /\ pc' = pc /\ status' = status
           ELSE Abort("ub") /\ ls' = ls
    /\ UNCHANGED << call, garbage, eu, out, mk, sg, passes, base, small_primes,
                    t1, t2, hist >>

LinearReturn ==
    /\ status = "running" /\ pc = "ls_loop" /\ ls.i >= ls.ub
    /\ out' = SubSeq(ls.buf, 1, ls.k)
    /\ Return
    /\ UNCHANGED << call, garbage, eu, ls, mk, sg, passes, base, small_primes,
                    t1, t2, hist >>

---------------------------------------------------------------------------
(* mask_sieve. *)

\* The primes below limit: the range [primes.begin(), it).
RECURSIVE PrimesBelow(_, _)
PrimesBelow(primes, limit) ==
    IF primes # << >> /\ Head(primes) < limit
    THEN << Head(primes) >> \o PrimesBelow(Tail(primes), limit)
    ELSE << >>

\* A start of the marking loop that forgets lower_bound.
MarkStartAtSquare(prime, lower_bound) == prime * prime

\* Where the marking loop of one prime starts.
MarkStart(prime, lower_bound) ==
    Max(prime * prime, TruncDiv(lower_bound + prime - 1, prime) * prime)

\* Where the marking loops of the base primes start, one per prime.
RECURSIVE MarkStarts(_, _)
MarkStarts(primes, lower_bound) ==
    IF primes = << >> THEN << >>
    ELSE << MarkStart(Head(primes), lower_bound) >>
         \o MarkStarts(Tail(primes), lower_bound)

\* The marking loop of one prime run from j to its end.
RECURSIVE MarkLoop(_, _, _, _)
MarkLoop(is_prime, j, prime, upper_bound) ==
    IF j < upper_bound
    THEN MarkLoop([is_prime EXCEPT ![j] = FALSE], j + prime, prime,
                  upper_bound)
    ELSE is_prime

\* The marking loops run one prime after another, as std::for_each without
\* an execution policy runs them.
RECURSIVE MarkedInTurn(_, _, _, _)
MarkedInTurn(is_prime, primes, lower_bound, upper_bound) ==
    IF primes = << >> THEN is_prime
    ELSE MarkedInTurn(MarkLoop(is_prime, MarkStart(Head(primes), lower_bound),
                               Head(primes), upper_bound),
                      Tail(primes), lower_bound, upper_bound)

\* The final loop: every i of lower_bound .. upper_bound whose flag is set.
RECURSIVE MaskExtract(_, _, _)
MaskExtract(is_prime, lower_bound, upper_bound) ==
    IF lower_bound > upper_bound THEN << >>
    ELSE MaskExtract(is_prime, lower_bound, upper_bound - 1)
         \o (IF is_prime[upper_bound] THEN << upper_bound >> ELSE << >>)

\* mask_sieve(lower_bound, upper_bound, resultant_primes) up to the start of
\* the marking: the base primes, the mask of upper_bound - lower_bound + 1
\* flags (indexed here by value), one marking loop per base prime.
MaskStart ==
    /\ status = "running" /\ pc = "start" /\ call.op = "mask_sieve"
    /\ LET limit == SqrtLimit(call.hi)
           r     == linear_sieve_container(limit, << >>, garbage)
           ps    == PrimesBelow(r.v, limit)
       IN  IF r.st = "ub"
           THEN Abort("ub") /\ mk' = mk
           ELSE /\ mk' = [ primes   |-> ps,
                           is_prime |-> [v \in call.lo..call.hi |-> TRUE],
                           cur      |-> MarkStarts(ps, call.lo) ]
                /\ pc' = "mk_mark"
                /\ status' = status
    /\ UNCHANGED << call, garbage, eu, out, ls, sg, passes, base, small_primes,
                    t1, t2, hist >>

\* One write of the marking loop of base prime number a.
MaskMark(a) ==
    /\ status = "running" /\ pc = "mk_mark"
    /\ mk.cur[a] < call.hi
    /\ mk' = [mk EXCEPT !.is_prime[mk.cur[a]] = FALSE,
                        !.cur[a] = mk.cur[a] + mk.primes[a]]
    /\ UNCHANGED << call, garbage, eu, pc, status, out, ls, sg, passes, base,
                    small_primes, t1, t2, hist >>

\* All marking loops have ended: the lower_bound == 1 case and the scan.
MaskFinish ==
    /\ status = "running" /\ pc = "mk_mark"
    /\ \A a \in 1..Len(mk.primes) : mk.cur[a] >= call.hi
    /\ LET m == IF call.lo = 1
                THEN [mk.is_prime EXCEPT ![1] = FALSE]
                ELSE mk.is_prime
       IN  out' = out \o MaskExtract(m, call.lo, call.hi)
    /\ Return
    /\ UNCHANGED << call, garbage, eu, ls, mk, sg, passes, base, small_primes,
                    t1, t2, hist >>

---------------------------------------------------------------------------
(* segmented_sieve. *)

\* The number of window tasks launched and not yet finished.
Running(tasks) == Cardinality({a \in 1..Len(tasks) : tasks[a].st = "running"})

\* A count of windows that is one too many.
RangesOneMore(lower_bound, upper_bound) ==
    TruncDiv(upper_bound - lower_bound, interval) + 1

\* std::size_t ranges {static_cast<std::size_t>((upper - lower) / interval)};
Ranges(lower_bound, upper_bound) ==
    TruncDiv(upper_bound - lower_bound, interval)

\* The first window: [lower_bound, lower_bound + interval), cut at
\* upper_bound.
FirstUpper(lower_bound, upper_bound) ==
    Min(lower_bound + interval, upper_bound)

\* The windows of the launch loop from iteration i on, and the last window
\* after them.
RECURSIVE LaunchWindows(_, _, _, _, _)
LaunchWindows(i, ranges, cur_lo, cur_hi, upper_bound) ==
    IF i < ranges
    THEN << << cur_lo, cur_hi >> >>
         \o LaunchWindows(i + 1, ranges, cur_hi, cur_hi + interval,
                          upper_bound)
    ELSE << << cur_lo, upper_bound >> >>

\* The windows the 4-argument overload forms, in index order.
SegWindows(lower_bound, upper_bound) ==
    LaunchWindows(0, Ranges(lower_bound, upper_bound), lower_bound,
                  FirstUpper(lower_bound, upper_bound), upper_bound)

\* prime_vectors concatenated from the last index down to the first.
RECURSIVE ConcatDescending(_)
ConcatDescending(vs) ==
    IF vs = << >> THEN << >> ELSE ConcatDescending(Tail(vs)) \o Head(vs)

\* prime_vectors concatenated in index order: the loop that inserts every
\* prime_vectors[i] at the end of resultant_primes.
RECURSIVE Concat(_)
Concat(vs) == IF vs = << >> THEN << >> ELSE Head(vs) \o Concat(Tail(vs))

\* An exception leaves a call of the caller's thread as an error and ends
\* the program (std::terminate) when it escapes a std::thread.
Throw(owner) == IF owner = "main" THEN "error" ELSE "terminated"

\* segmented_sieve(lower_bound, upper_bound, resultant_primes), up to its
\* calls of the 4-argument overload: the base primes below
\* floor(sqrt(upper_bound)) + 1, and the passes to run.
SegStart(owner, lower_bound, upper_bound) ==
    LET limit == SqrtLimit(upper_bound)
        small == limit < linear_sieve_limit
        r     == linear_sieve_container(
                     IF small THEN limit ELSE linear_sieve_limit,
                     << >>, garbage)
        last  == [lo |-> lower_bound, hi |-> upper_bound, dest |-> "out"]
    IN  IF ReserveUB(limit) \/ r.st = "ub"
        THEN Abort("ub") /\ UNCHANGED << base, passes, sg >>
        ELSE /\ base' = r.v
             /\ passes' = IF small THEN << last >>
                          ELSE << [lo |-> linear_sieve_limit, hi |-> limit,
                                   dest |-> "base"], last >>
             /\ sg' = [NoSg EXCEPT !.phase = "idle", !.owner = owner]
             /\ status' = status

\* The caller's thread enters segmented_sieve: called directly, or by
\* prime_range after its two threads are joined.
SegStartMain ==
    /\ status = "running"
    /\ \/ pc = "start" /\ call.op = "segmented_sieve"
       \/ pc = "seg3"
    /\ SegStart("main", call.lo, call.hi)
    /\ pc' = IF status' = "running" THEN "seg_run" ELSE pc
    /\ UNCHANGED << call, garbage, eu, out, ls, mk, small_primes, t1, t2, hist >>

\* Thread t2 enters segmented_sieve.
SegStartT2 ==
    /\ status = "running" /\ t2.st = "ready"
    /\ SegStart("t2", t2.lo, t2.hi)
    /\ t2' = IF status' = "running" THEN [t2 EXCEPT !.st = "active"] ELSE t2
    /\ pc' = pc
    /\ UNCHANGED << call, garbage, eu, out, ls, mk, small_primes, t1, hist >>

\* The 4-argument overload up to its launch loop: the first window, ranges,
\* prime_vectors(ranges + 1), future_manager(ranges), primes_in_range.  A
\* negative ranges converts to a std::size_t near 2^64 and the vector of
\* that size throws std::length_error.
SegPassBegin ==
    /\ status = "running" /\ sg.phase = "idle" /\ passes # << >>
    /\ LET p      == Head(passes)
           first  == FirstUpper(p.lo, p.hi)
           ranges == Ranges(p.lo, p.hi)
       IN  IF TooBig(ranges)
           THEN Abort(Throw(sg.owner)) /\ UNCHANGED << sg, hist >>
           ELSE IF PrimesInRangeUB(p.lo, first)
           THEN Abort("ub") /\ UNCHANGED << sg, hist >>
           ELSE /\ sg' = [sg EXCEPT
                       !.phase = "launch", !.dest = p.dest,
                       !.lower = p.lo, !.upper = p.hi,
                       !.cur_lo = p.lo, !.cur_hi = first,
                       !.ranges = ranges, !.i = 0,
                       !.prime_vectors = [a \in 1..(ranges + 1) |-> << >>],
                       !.future_manager = [a \in 1..ranges |-> 0],
                       !.tasks = << >>, !.f = 1]
                /\ pass' = [kind |-> "par", lo |-> p.lo, hi |-> p.hi,
                            complete |-> FALSE]
                /\ windows' = << >>
                /\ finished' = << >>
                /\ pc' = pc /\ status' = status
    /\ UNCHANGED << call, garbage, eu, out, ls, mk, passes, base, small_primes,
                    t1, t2 >>

\* One iteration of the launch loop: std::async(std::launch::async, ...)
\* starts a thread that sieves [current_lower_bound, current_upper_bound)
\* into prime_vectors[i].
SegLaunch ==
    /\ status = "running" /\ sg.phase = "launch" /\ sg.i < sg.ranges
    /\ LET task == [lo |-> sg.cur_lo, hi |-> sg.cur_hi, slot |-> sg.i + 1,
                    st |-> "running"]
           ts   == Append(sg.tasks, task)
       IN  /\ sg' = [sg EXCEPT
                       !.tasks = ts,
                       !.future_manager = Append(sg.future_manager, Len(ts)),
                       !.cur_lo = sg.cur_hi,
                       !.cur_hi = sg.cur_hi + interval,
                       !.i = sg.i + 1]
           /\ windows' = Append(windows, << task.lo, task.hi >>)
    /\ UNCHANGED << call, garbage, eu, pc, status, out, ls, mk, passes, base,
                    small_primes, t1, t2, pass, finished >>

\* After the loop: the task of the last window, [current_lower_bound,
\* upper_bound), which writes prime_vectors.back().
SegLaunchLast ==
    /\ status = "running" /\ sg.phase = "launch" /\ sg.i >= sg.ranges
    /\ LET task == [lo |-> sg.cur_lo, hi |-> sg.upper,
                    slot |-> Len(sg.prime_vectors), st |-> "running"]
           ts   == Append(sg.tasks, task)
       IN  /\ sg' = [sg EXCEPT
                       !.tasks = ts,
                       !.future_manager = Append(sg.future_manager, Len(ts)),
                       !.phase = "join"]
           /\ windows' = Append(windows, << task.lo, task.hi >>)
           /\ pass' = [pass EXCEPT !.complete = TRUE]
    /\ UNCHANGED << call, garbage, eu, pc, status, out, ls, mk, passes, base,
                    small_primes, t1, t2, finished >>

\* The slot of prime_vectors a window task writes.
TaskSlot(t) == t.slot

\* A window task runs to its end: IntervalSieve sieve(lo, hi, primes,
\* prime_vectors[slot]), primes being the local vector of the 3-argument
\* overload in both of its passes.
TaskFinish(a) ==
    /\ status = "running" /\ sg.phase \in {"launch", "join"}
    /\ a \in 1..Len(sg.tasks) /\ sg.tasks[a].st = "running"
    /\ LET t == sg.tasks[a]
       IN  /\ sg' = [sg EXCEPT
                       !.tasks[a].st = "done",
                       !.prime_vectors[TaskSlot(t)] =
                           sg.prime_vectors[TaskSlot(t)]
                           \o IntervalSieve(t.lo, t.hi, base)]
           /\ finished' = Append(finished, << t.lo, t.hi >>)
    /\ UNCHANGED << call, garbage, eu, pc, status, out, ls, mk, passes, base,
                    small_primes, t1, t2, pass, windows >>

\* A join loop that steps over a future without waiting for its task.
SegJoinNoWait ==
    /\ status = "running" /\ sg.phase = "join"
    /\ sg.f <= Len(sg.future_manager)
    /\ sg' = [sg EXCEPT !.f = sg.f + 1]
    /\ UNCHANGED << call, garbage, eu, pc, status, out, ls, mk, passes, base,
                    small_primes, t1, t2, hist >>

\* A join loop that waits for every task and drops what it threw.
SegJoinSwallow ==
    /\ status = "running" /\ sg.phase = "join"
    /\ sg.f <= Len(sg.future_manager)
    /\ LET t == sg.future_manager[sg.f]
       IN  t # 0 => sg.tasks[t].st # "running"
    /\ sg' = [sg EXCEPT !.f = sg.f + 1]
    /\ UNCHANGED << call, garbage, eu, pc, status, out, ls, mk, passes, base,
                    small_primes, t1, t2, hist >>

\* A window task ends with an exception (IntervalSieve cannot allocate):
\* the shared state of its future keeps the exception.
TaskFail(a) ==
    /\ status = "running" /\ sg.phase \in {"launch", "join"}
    /\ a \in 1..Len(sg.tasks) /\ sg.tasks[a].st = "running"
    /\ sg' = [sg EXCEPT !.tasks[a].st = "failed"]
    /\ UNCHANGED << call, garbage, eu, pc, status, out, ls, mk, passes, base,
                    small_primes, t1, t2, hist >>

\* One iteration of the join loop: a future that is not valid is skipped,
\* get() of a valid one waits for its task and rethrows what the task
\* threw, which leaves segmented_sieve before its merge loop.
SegJoin ==
    /\ status = "running" /\ sg.phase = "join"
    /\ sg.f <= Len(sg.future_manager)
    /\ LET t == sg.future_manager[sg.f]
       IN  /\ t # 0 => sg.tasks[t].st # "running"
           /\ IF t # 0 /\ sg.tasks[t].st = "failed"
              THEN Abort(Throw(sg.owner)) /\ sg' = sg
              ELSE /\ sg' = [sg EXCEPT !.f = sg.f + 1]
                   /\ pc' = pc /\ status' = status
    /\ UNCHANGED << call, garbage, eu, out, ls, mk, passes, base, small_primes,
                    t1, t2, hist >>

\* Where the caller's thread goes when segmented_sieve returns to it.
AfterSegMain == IF call.op = "prime_range" THEN "trim" ELSE "done"

\* The loop that inserts every prime_vectors[i] at the end of
\* resultant_primes, and the return of the 4-argument overload; after the
\* last pass the 3-argument overload returns too.
SegMerge ==
    /\ status = "running" /\ sg.phase = "join"
    /\ sg.f > Len(sg.future_manager)
    /\ LET merged == Concat(sg.prime_vectors)
           last   == Len(passes) = 1
       IN  /\ IF sg.dest = "base"
              THEN base' = base \o merged /\ out' = out
              ELSE out' = out \o merged /\ base' = base
           /\ passes' = Tail(passes)
           /\ sg' = IF last THEN NoSg ELSE [sg EXCEPT !.phase = "idle"]
           /\ IF last /\ sg.owner = "t2"
              THEN t2' = [t2 EXCEPT !.st = "done"]
              ELSE t2' = t2
           /\ IF last /\ sg.owner = "main"
              THEN /\ pc' = AfterSegMain
                   /\ status' = IF AfterSegMain = "done" THEN "done"
                                ELSE status
              ELSE pc' = pc /\ status' = status
    /\ UNCHANGED << call, garbage, eu, ls, mk, small_primes, t1, hist >>

---------------------------------------------------------------------------
(* sequential_segmented_sieve. *)

\* The windows of the loop from iteration i on: each starts where the one
\* before it ends and is cut at upper_bound.
RECURSIVE NewRangeWindows(_, _, _, _)
NewRangeWindows(i, ranges, cur_hi, upper_bound) ==
    IF i < ranges
    THEN LET hi == Min(cur_hi + interval, upper_bound)
         IN  << << cur_hi, hi >> >>
             \o NewRangeWindows(i + 1, ranges, hi, upper_bound)
    ELSE << >>

\* The windows sequential_segmented_sieve forms, in order.
SeqWindows(lower_bound, upper_bound) ==
    << << lower_bound, FirstUpper(lower_bound, upper_bound) >> >>
    \o NewRangeWindows(0, Ranges(lower_bound, upper_bound),
                       FirstUpper(lower_bound, upper_bound), upper_bound)

\* Where the caller's thread goes when the last sequential pass returns.
AfterSeq == IF call.op = "prime_range" THEN "trim" ELSE "done"

\* The return of one call of sequential_segmented_sieve.
SeqQuit ==
    /\ passes' = Tail(passes)
    /\ sg' = NoSg
    /\ IF Len(passes) = 1
       THEN /\ pc' = AfterSeq
            /\ status' = IF AfterSeq = "done" THEN "done" ELSE status
       ELSE pc' = pc /\ status' = status

\* sequential_segmented_sieve up to its loop: the first window, ranges, and
\* the IntervalSieve built on it, whose base primes and output are both
\* resultant_primes.  A negative ranges converts to a std::size_t near 2^64:
\* the loop then runs that many times.
SeqBegin ==
    /\ status = "running" /\ pc = "seq" /\ sg.phase = "off"
    /\ passes # << >>
    /\ LET p      == Head(passes)
           first  == FirstUpper(p.lo, p.hi)
           ranges == Ranges(p.lo, p.hi)
       IN  /\ out' = out \o IntervalSieve(p.lo, first, out)
           /\ windows' = << << p.lo, first >> >>
           /\ pass' = [kind |-> "seq", lo |-> p.lo, hi |-> p.hi,
                       complete |-> ranges = 0]
           /\ IF ranges = 0
              THEN SeqQuit
              ELSE IF TooBig(ranges)
              THEN Abort("hang") /\ UNCHANGED << sg, passes >>
              ELSE /\ sg' = [sg EXCEPT !.phase = "seqloop",
                                       !.lower = p.lo, !.upper = p.hi,
                                       !.cur_lo = p.lo, !.cur_hi = first,
                                       !.ranges = ranges, !.i = 0]
                   /\ UNCHANGED << pc, status, passes >>
    /\ UNCHANGED << call, garbage, eu, ls, mk, base, small_primes, t1, t2,
                    finished >>

\* One iteration of the loop: the next window, cut at upper_bound, and
\* sieve.NewRange on it.
SeqNewRange ==
    /\ status = "running" /\ pc = "seq" /\ sg.phase = "seqloop"
    /\ sg.i < sg.ranges
    /\ LET lo == sg.cur_hi
           hi == Min(sg.cur_hi + interval, sg.upper)
       IN  /\ out' = out \o IntervalSieve(lo, hi, out)
           /\ windows' = Append(windows, << lo, hi >>)
           /\ pass' = [pass EXCEPT !.complete = sg.i + 1 >= sg.ranges]
           /\ IF sg.i + 1 >= sg.ranges
              THEN SeqQuit
              ELSE /\ sg' = [sg EXCEPT !.cur_lo = lo, !.cur_hi = hi,
                                       !.i = sg.i + 1]
                   /\ UNCHANGED << pc, status, passes >>
    /\ UNCHANGED << call, garbage, eu, ls, mk, base, small_primes, t1, t2,
                    finished >>

---------------------------------------------------------------------------
(* sequential_segmented_sieve with Integer an unsigned type of IntegerBits
   bits, called with lower_bound <= upper_bound. *)

\* Integer current_upper_bound{current_lower_bound + interval}, cut at
\* upper_bound when it is above it.
UintUpper(from, upper_bound) ==
    IF WrapAdd(from, interval) > upper_bound THEN upper_bound
    ELSE WrapAdd(from, interval)

\* The function up to its loop: the first window, ranges, and the
\* IntervalSieve built on the first window.
UintSeqBegin ==
    /\ status = "running" /\ pc = "start"
    /\ call.op = "sequential_segmented_sieve"
    /\ LET first  == UintUpper(call.lo, call.hi)
           ranges == Ranges(call.lo, call.hi)
       IN  /\ out' = out \o IntervalSieve(call.lo, first, out)
           /\ windows' = << << call.lo, first >> >>
           /\ pass' = [kind |-> "seq_uint", lo |-> call.lo, hi |-> call.hi,
                       complete |-> ranges = 0]
           /\ IF ranges = 0
              THEN Return /\ sg' = sg
              ELSE /\ sg' = [sg EXCEPT !.lower = call.lo, !.upper = call.hi,
                                       !.cur_lo = call.lo, !.cur_hi = first,
                                       !.ranges = ranges, !.i = 0]
                   /\ pc' = "useq" /\ status' = status
    /\ UNCHANGED << call, garbage, eu, ls, mk, passes, base, small_primes, t1,
                    t2, finished >>

\* One iteration of the loop: the next window and sieve.NewRange on it.
UintSeqNewRange ==
    /\ status = "running" /\ pc = "useq" /\ sg.i < sg.ranges
    /\ LET lo == sg.cur_hi
           hi == UintUpper(sg.cur_hi, sg.upper)
       IN  /\ out' = out \o IntervalSieve(lo, hi, out)
           /\ windows' = Append(windows, << lo, hi >>)
           /\ pass' = [pass EXCEPT !.complete = sg.i + 1 >= sg.ranges]
           /\ sg' = [sg EXCEPT !.cur_lo = lo, !.cur_hi = hi,
                               !.i = sg.i + 1]
           /\ IF sg.i + 1 >= sg.ranges
              THEN Return
              ELSE pc' = pc /\ status' = status
    /\ UNCHANGED << call, garbage, eu, ls, mk, passes, base, small_primes, t1,
                    t2, finished >>

---------------------------------------------------------------------------
(* prime_sieve and prime_range. *)

\* An early return that misses upper_bound == 2.
ReturnsBelowTwo(upper_bound) == upper_bound < 2

\* if(upper_bound == 2) { return; }
ReturnsAtOnce(upper_bound) == upper_bound = 2

\* A sequential pass over [lo, hi).
SeqPass(lo, hi) == [lo |-> lo, hi |-> hi, dest |-> "out"]

\* std::thread t1 and std::thread t2 are started.
Fork(n, lo, hi) ==
    /\ t1' = [st |-> "ready", lo |-> 0, hi |-> n]
    /\ t2' = [st |-> "ready", lo |-> lo, hi |-> hi]

\* prime_sieve(policy, upper_bound, primes) up to its return, its
\* sequential segmented pass or the start of its two threads.
PrimeSieveStart ==
    /\ status = "running" /\ pc = "start" /\ call.op = "prime_sieve"
    /\ IF ReturnsAtOnce(call.hi)
       THEN Return /\ UNCHANGED << out, passes, t1, t2 >>
       ELSE IF call.hi <= linear_sieve_limit
       THEN LET r == linear_sieve_container(call.hi, out, garbage)
            IN  /\ IF r.st = "ub" THEN Abort("ub") /\ out' = out
                                  ELSE Return /\ out' = r.v
                /\ UNCHANGED << passes, t1, t2 >>
       ELSE IF call.policy = "seq"
       THEN LET r == linear_sieve_container(linear_sieve_limit, out, garbage)
            IN  /\ IF r.st = "ub"
                   THEN Abort("ub") /\ UNCHANGED << out, passes >>
                   ELSE /\ out' = r.v
                        /\ passes' = << SeqPass(linear_sieve_limit, call.hi) >>
                        /\ pc' = "seq" /\ status' = status
                /\ UNCHANGED << t1, t2 >>
       ELSE /\ Fork(linear_sieve_limit * 2, linear_sieve_limit * 2, call.hi)
            /\ pc' = "join" /\ status' = status
            /\ UNCHANGED << out, passes >>
    /\ UNCHANGED << call, garbage, eu, ls, mk, sg, base, small_primes,
                    hist >>

\* Thread t1: linear_sieve_container(n, small_primes).
T1Run ==
    /\ status = "running" /\ t1.st = "ready"
    /\ LET r == linear_sieve_container(t1.hi, small_primes, garbage)
       IN  IF r.st = "ub"
           THEN Abort("ub") /\ UNCHANGED << small_primes, t1 >>
           ELSE /\ small_primes' = r.v
                /\ t1' = [t1 EXCEPT !.st = "done"]
                /\ pc' = pc /\ status' = status
    /\ UNCHANGED << call, garbage, eu, out, ls, mk, sg, passes, base, t2,
                    hist >>

\* prime_range takes its second parallel branch: limit is above twice the
\* linear limit.
LargeLimit == SqrtLimit(call.hi) > linear_sieve_limit * 2

\* t1.join(); t2.join(); primes.insert(primes.begin(), small_primes...).
\* prime_sieve returns; prime_range goes on to its trimming loop or, in its
\* second parallel branch, to segmented_sieve(lower_bound, upper_bound).
Join ==
    /\ status = "running" /\ pc = "join"
    /\ t1.st = "done" /\ t2.st = "done"
    /\ out' = small_primes \o out
    /\ IF call.op = "prime_sieve"
       THEN Return
       ELSE /\ pc' = IF LargeLimit THEN "seg3" ELSE "trim"
            /\ status' = status
    /\ UNCHANGED << call, garbage, eu, ls, mk, sg, passes, base, small_primes,
                    t1, t2, hist >>

\* prime_range(policy, lower_bound, upper_bound, primes) up to its return,
\* its trimming loop, its sequential passes or the start of its threads.
PrimeRangeStart ==
    /\ status = "running" /\ pc = "start" /\ call.op = "prime_range"
    /\ LET limit == SqrtLimit(call.hi)
           from  == IF call.lo <= limit THEN limit ELSE call.lo
       IN
       IF ReturnsAtOnce(call.hi)
       THEN Return /\ UNCHANGED << out, passes, t1, t2 >>
       ELSE IF call.hi <= linear_sieve_limit
       THEN LET r == linear_sieve_container(call.hi, out, garbage)
            IN  /\ IF r.st = "ub" THEN Abort("ub") /\ out' = out
                   ELSE out' = r.v /\ pc' = "trim" /\ status' = status
                /\ UNCHANGED << passes, t1, t2 >>
       ELSE IF call.policy = "seq"
       THEN LET small == limit <= linear_sieve_limit
                r == linear_sieve_container(
                         IF small THEN limit ELSE linear_sieve_limit,
                         out, garbage)
            IN  /\ IF r.st = "ub"
                   THEN Abort("ub") /\ UNCHANGED << out, passes >>
                   ELSE /\ out' = r.v
                        /\ passes' =
                             IF small THEN << SeqPass(from, call.hi) >>
                             ELSE << SeqPass(linear_sieve_limit, limit),
                                     SeqPass(call.lo, call.hi) >>
                        /\ pc' = "seq" /\ status' = status
                /\ UNCHANGED << t1, t2 >>
       ELSE /\ IF LargeLimit
               THEN Fork(linear_sieve_limit * 2,
                         linear_sieve_limit * 2, limit)
               ELSE Fork(limit, from, call.hi)
            /\ pc' = "join" /\ status' = status
            /\ UNCHANGED << out, passes >>
    /\ UNCHANGED << call, garbage, eu, ls, mk, sg, base, small_primes,
                    hist >>

\* The number of leading elements the trimming loop steps over.
RECURSIVE TrimCount(_, _)
TrimCount(primes, lower_bound) ==
    IF primes # << >> /\ Head(primes) < lower_bound
    THEN 1 + TrimCount(Tail(primes), lower_bound)
    ELSE 0

\* The trimming loop and the erase.  The loop reads *it before it compares
\* it with primes.end(): when every element is below lower_bound it reads
\* one element past the end, which either faults or yields a value that the
\* second comparison discards.
Trim ==
    /\ status = "running" /\ pc = "trim"
    /\ LET n == TrimCount(out, call.lo)
       IN  \/ /\ out' = SubSeq(out, n + 1, Len(out))
              /\ Return
           \/ /\ n = Len(out)
              /\ Abort("ub")
              /\ out' = out
    /\ UNCHANGED << call, garbage, eu, ls, mk, sg, passes, base, small_primes,
                    t1, t2, hist >>

---------------------------------------------------------------------------

Next ==
    \/ LinearStart
    \/ LinearIter
    \/ LinearReturn
    \/ MaskStart
    \/ \E a \in 1..Len(mk.primes) : MaskMark(a)
    \/ MaskFinish
    \/ SegStartMain
    \/ SegStartT2
    \/ SegPassBegin
    \/ SegLaunch
    \/ SegLaunchLast
    \/ \E a \in 1..Len(sg.tasks) : TaskFinish(a)
    \/ \E a \in 1..Len(sg.tasks) : TaskFail(a)
    \/ SegJoin
    \/ SegMerge
    \/ SeqBegin
    \/ SeqNewRange
    \/ UintSeqBegin
    \/ UintSeqNewRange
    \/ PrimeSieveStart
    \/ T1Run
    \/ Join
    \/ PrimeRangeStart
    \/ Trim

Spec == Init /\ [][Next]_vars

---------------------------------------------------------------------------
(* Euclid_gcd: the overload of two arguments, the overload that takes the
   modulo operation, and the overload that takes the relation and the
   modulo operation.  A behaviour of GcdSpec is one call with non-negative
   a and b; the operations supplied are a %= b and !=. *)

\* A step that divides where the algorithm takes the remainder.
EuclidQuotient(a, b) == a \div b

\* a %= b, for non-negative a and positive b.
EuclidModulo(a, b) == a % b

\* not_equal_to(b, EuclideanDomain(0)) with the relation !=.
NotEqualTo(x, y) == x # y

GcdOps == {"Euclid_gcd", "Euclid_gcd_modulo", "Euclid_gcd_relation"}

GcdCalls ==
    [op : GcdOps, policy : {"seq"}, lo : 0..MaxGcd, hi : 0..MaxGcd,
     prior : {<< >>}]

\* The state on entry: a and b are the arguments.
GcdInit ==
    /\ call \in GcdCalls
    /\ garbage = 0
    /\ pc = "start"
    /\ status = "running"
    /\ out = << >>
    /\ ls = NoLs
    /\ mk = NoMk
    /\ sg = NoSg
    /\ passes = << >>
    /\ base = << >>
    /\ small_primes = << >>
    /\ t1 = NoThread
    /\ t2 = NoThread
    /\ pass = NoPass
    /\ windows = << >>
    /\ finished = << >>
    /\ eu = [a |-> call.lo, b |-> call.hi]

\* What no step of Euclid_gcd touches.
GcdFrame ==
    UNCHANGED << call, garbage, out, ls, mk, sg, passes, base, small_primes,
                 t1, t2, hist >>

\* One iteration of while (b != 0): a %= b; swap(a, b).
EuclidIter ==
    /\ status = "running" /\ call.op = "Euclid_gcd"
    /\ eu.b # 0
    /\ eu' = [a |-> eu.b, b |-> EuclidModulo(eu.a, eu.b)]
    /\ pc' = "loop" /\ status' = status
    /\ GcdFrame

\* The loop ends: return a.
EuclidReturn ==
    /\ status = "running" /\ call.op = "Euclid_gcd"
    /\ eu.b = 0
    /\ Return
    /\ eu' = eu
    /\ GcdFrame

\* One iteration in the overloads that take operations: the test is
\* b != 0 or not_equal_to(b, 0), the body modulo(a, b); swap(a, b).
EuclidIterWith ==
    /\ status = "running"
    /\ \/ call.op = "Euclid_gcd_modulo" /\ eu.b # 0
       \/ call.op = "Euclid_gcd_relation" /\ NotEqualTo(eu.b, 0)
    /\ eu' = [a |-> eu.b, b |-> EuclidModulo(eu.a, eu.b)]
    /\ pc' = "loop" /\ status' = status
    /\ GcdFrame

\* The loop of those overloads ends: return a.
EuclidReturnWith ==
    /\ status = "running"
    /\ \/ call.op = "Euclid_gcd_modulo" /\ ~(eu.b # 0)
       \/ call.op = "Euclid_gcd_relation" /\ ~NotEqualTo(eu.b, 0)
    /\ Return
    /\ eu' = eu
    /\ GcdFrame

GcdNext ==
    \/ EuclidIter
    \/ EuclidReturn
    \/ EuclidIterWith
    \/ EuclidReturnWith

\* A call that can take a step takes it.
GcdSpec == GcdInit /\ [][GcdNext]_vars /\ WF_vars(GcdNext)

---------------------------------------------------------------------------
(* The calls as functions of their arguments: what each leaves in its
   container when its steps run one after another. *)

\* The windows ws sieved with the same base primes, the results end to
\* end in window order.
RECURSIVE SievedInOrder(_, _)
SievedInOrder(ws, primes) ==
    IF ws = << >> THEN << >>
    ELSE IntervalSieve(Head(ws)[1], Head(ws)[2], primes)
         \o SievedInOrder(Tail(ws), primes)

\* The windows ws sieved one after another onto c, each with the container
\* as it stands as its base primes.
RECURSIVE SievedOnto(_, _)
SievedOnto(ws, c) ==
    IF ws = << >> THEN c
    ELSE SievedOnto(Tail(ws),
                    c \o IntervalSieve(Head(ws)[1], Head(ws)[2], c))

\* sequential_segmented_sieve(lower_bound, upper_bound, resultant_primes),
\* r being the container and how the calls before it ended.
sequential_segmented_sieve(lower_bound, upper_bound, r) ==
    IF r.st # "ok" THEN r
    ELSE IF TooBig(Ranges(lower_bound, upper_bound))
    THEN [st |-> "hang", v |-> r.v]
    ELSE [st |-> "ok",
          v |-> SievedOnto(SeqWindows(lower_bound, upper_bound), r.v)]

\* The 4-argument segmented_sieve: r.v with the primes of the windows
\* appended in index order.
segmented_sieve_pass(owner, lower_bound, upper_bound, primes, r) ==
    IF r.st # "ok" THEN r
    ELSE IF TooBig(Ranges(lower_bound, upper_bound))
    THEN [st |-> Throw(owner), v |-> r.v]
    ELSE IF PrimesInRangeUB(lower_bound,
                            FirstUpper(lower_bound, upper_bound))
    THEN [st |-> "ub", v |-> r.v]
    ELSE [st |-> "ok",
          v |-> r.v \o SievedInOrder(SegWindows(lower_bound, upper_bound),
                                     primes)]

\* The 3-argument segmented_sieve on container c.
segmented_sieve(owner, lower_bound, upper_bound, c, g) ==
    LET limit == SqrtLimit(upper_bound)
        small == limit < linear_sieve_limit
        b0    == linear_sieve_container(
                     IF small THEN limit ELSE linear_sieve_limit,
                     << >>, g)
        b1    == IF small THEN b0
                 ELSE segmented_sieve_pass(owner, linear_sieve_limit, limit,
                                           b0.v, b0)
    IN  IF ReserveUB(limit) \/ b0.st # "ok" THEN [st |-> "ub", v |-> c]
        ELSE IF b1.st # "ok" THEN [st |-> b1.st, v |-> c]
        ELSE segmented_sieve_pass(owner, lower_bound, upper_bound, b1.v,
                                  [st |-> "ok", v |-> c])

\* prime_sieve(policy, upper_bound, primes) on container c.
prime_sieve(policy, upper_bound, c, g) ==
    IF ReturnsAtOnce(upper_bound) THEN [st |-> "ok", v |-> c]
    ELSE IF upper_bound <= linear_sieve_limit
    THEN linear_sieve_container(upper_bound, c, g)
    ELSE IF policy = "seq"
    THEN sequential_segmented_sieve(
             linear_sieve_limit, upper_bound,
             linear_sieve_container(linear_sieve_limit, c, g))
    ELSE LET s == linear_sieve_container(linear_sieve_limit * 2, << >>, g)
             t == segmented_sieve("t2", linear_sieve_limit * 2, upper_bound,
                                  c, g)
         IN  IF s.st # "ok" THEN [st |-> "ub", v |-> c]
             ELSE IF t.st # "ok" THEN [st |-> t.st, v |-> c]
             ELSE [st |-> "ok", v |-> s.v \o t.v]

---------------------------------------------------------------------------
(* Properties. *)

\* The call has ended, normally or not.
Ended == status # "running"

\* What the call appended to the container it was given.
Appended == SubSeq(out, Len(call.prior) + 1, Len(out))

\* s without its values below lo.
RECURSIVE RemoveBelow(_, _)
RemoveBelow(s, lo) ==
    IF s = << >> THEN << >>
    ELSE (IF Head(s) < lo THEN << >> ELSE << Head(s) >>)
         \o RemoveBelow(Tail(s), lo)

\* C1: prime_sieve with upper_bound >= 2 on an empty container, under
\* either policy, leaves exactly the primes of [2, upper_bound) in it, in
\* strictly increasing order.
C1_PrimeSieveExact ==
    (call.op = "prime_sieve" /\ call.hi >= 2 /\ call.prior = << >>
        /\ status = "done")
    => out = PrimesIn(2, call.hi)

\* C2: above the linear threshold, prime_sieve under the parallel policy
\* ends, in every schedule, with the sequence the sequential policy
\* produces for the same upper_bound.
C2_ParallelEqualsSequential ==
    (call.op = "prime_sieve" /\ call.policy = "par"
        /\ call.hi > linear_sieve_limit /\ Ended)
    => LET r == prime_sieve("seq", call.hi, call.prior, garbage)
       IN  status = "done" /\ r.st = "ok" /\ out = r.v

\* C3: for lo <= hi, prime_range(lo, hi) on an empty container ends with
\* what prime_sieve(hi) produces, its values below lo removed.
C3_RangeIsFilteredSieve ==
    (call.op = "prime_range" /\ call.lo <= call.hi /\ call.prior = << >>
        /\ Ended)
    => LET r == prime_sieve(call.policy, call.hi, << >>, garbage)
       IN  status = "done" /\ r.st = "ok"
           /\ out = RemoveBelow(r.v, call.lo)

\* C4: linear_sieve(upper_bound) writes exactly the primes of
\* [2, upper_bound), ascending, and nothing when upper_bound < 2.
C4_LinearSieveExact ==
    (call.op = "linear_sieve" /\ status = "done")
    => out = PrimesIn(2, call.hi)

\* C5: for 1 <= lo <= hi, mask_sieve(lo, hi) appends exactly the primes of
\* [lo, hi), ascending: not hi itself, no composite, and not 1.
C5_MaskSieveExact ==
    (call.op = "mask_sieve" /\ call.lo >= 1 /\ status = "done")
    => Appended = PrimesIn(call.lo, call.hi)

\* C6: when the window tasks of a pass of segmented_sieve have all
\* finished, in whatever order, prime_vectors read in index order holds the
\* primes of the windows in window order and is strictly increasing; and
\* segmented_sieve returns with exactly that appended to its container.
C6_MergeInWindowOrder ==
    /\ (sg.phase = "join"
          /\ \A a \in 1..Len(sg.tasks) : sg.tasks[a].st = "done")
       => /\ Concat(sg.prime_vectors) = SievedInOrder(windows, base)
          /\ StrictlyIncreasing(Concat(sg.prime_vectors))
    /\ (call.op = "segmented_sieve" /\ status = "done")
       => /\ out = segmented_sieve("main", call.lo, call.hi, call.prior,
                                   garbage).v
          /\ StrictlyIncreasing(Appended)

\* C6, its case: segmented_sieve has returned after at least three windows
\* whose tasks finished in another order than they were launched in, and
\* it appended primes of more than one window.
C6_Witness ==
    /\ call.op = "segmented_sieve" /\ status = "done"
    /\ Len(windows) >= 3
    /\ Len(finished) = Len(windows) /\ finished # windows
    /\ Len(Appended) >= 3

\* The integers of window w.
WindowSet(w) == { x \in w[1]..(w[2] - 1) : TRUE }

\* C7: for lo <= hi the windows of a pass of segmented_sieve or of
\* sequential_segmented_sieve start at lo, each starts where the one before
\* it ends, none is longer than interval, and once the last is formed it
\* ends at hi and every integer of [lo, hi) lies in exactly one window.
C7_WindowsPartitionRange ==
    (pass.kind \in {"par", "seq"} /\ pass.lo <= pass.hi)
    => /\ \A a \in 1..Len(windows) :
            /\ windows[a][1] <= windows[a][2]
            /\ windows[a][2] - windows[a][1] <= interval
            /\ windows[a][2] <= pass.hi
            /\ windows[a][1] = IF a = 1 THEN pass.lo
                               ELSE windows[a - 1][2]
            /\ a < Len(windows)
               => windows[a][2] - windows[a][1] = interval
       /\ pass.complete
          => /\ windows # << >>
             /\ windows[Len(windows)][2] = pass.hi
             /\ \A x \in pass.lo..(pass.hi - 1) :
                  Cardinality({ a \in 1..Len(windows) :
                                  x \in WindowSet(windows[a]) }) = 1

\* C7, its case: a sequential pass has formed all its windows, three or
\* more, the last of them cut short at hi.
C7_Witness ==
    /\ pass.kind = "seq" /\ pass.complete /\ pass.lo < pass.hi
    /\ Len(windows) >= 3
    /\ LET w == windows[Len(windows)]
       IN  w[1] < w[2] /\ w[2] - w[1] < interval

\* C8: the window tasks of segmented_sieve running at the same time never
\* outnumber the hardware threads.
C8_TasksWithinHardwareConcurrency ==
    Running(sg.tasks) <= HardwareConcurrency

\* C9: prime_range and segmented_sieve called with hi < lo end with an
\* error and their container as it was.
C9_InvalidRangeRejected ==
    (call.op \in {"prime_range", "segmented_sieve"} /\ call.hi < call.lo
        /\ Ended)
    => status = "error" /\ out = call.prior

\* C10: prime_sieve and prime_range called with upper_bound == 2, under
\* either policy, leave their container as it was and return.
C10_BoundTwoLeavesContainer ==
    (call.op \in {"prime_sieve", "prime_range"} /\ call.hi = 2)
    => /\ out = call.prior
       /\ status \in {"running", "done"}
       /\ pc \in {"start", "done"}

\* C10, its case: prime_range with upper_bound == 2 has returned to a
\* caller whose container held values before the call.
C10_Witness ==
    /\ call.op = "prime_range" /\ call.hi = 2 /\ call.policy = "par"
    /\ call.prior # << >> /\ status = "done"

\* C11: for lo <= hi, segmented_sieve(lo, hi) returns having appended what
\* one sieve over [lo, hi) produces: exactly the primes of [lo, hi),
\* ascending.
C11_PartitionInvariance ==
    (call.op = "segmented_sieve" /\ call.lo <= call.hi /\ Ended)
    => status = "done" /\ Appended = PrimesIn(call.lo, call.hi)

\* The mask as it is when mask_sieve starts marking: every flag set.
AllSet == [v \in call.lo..call.hi |-> TRUE]

\* C12: while mask_sieve marks, the next write of every marking loop falls
\* at an index of [0, hi - lo), a flag is cleared only where the loops run
\* one prime after another clear it, and when all loops have ended, in
\* whatever interleaving, the mask equals the mask of that sequential run.
C12_MaskWritesAgree ==
    pc = "mk_mark"
    => LET turn == MarkedInTurn(AllSet, mk.primes, call.lo, call.hi)
       IN  /\ \A a \in 1..Len(mk.primes) :
                mk.cur[a] < call.hi
                => mk.cur[a] - call.lo \in 0..(call.hi - call.lo - 1)
           /\ DOMAIN mk.is_prime = call.lo..call.hi
           /\ \A v \in call.lo..call.hi : mk.is_prime[v] \/ ~turn[v]
           /\ (\A a \in 1..Len(mk.primes) : mk.cur[a] >= call.hi)
              => mk.is_prime = turn

\* C12, its case: the marking loops of two base primes are about to write
\* the same flag.
C12_Witness ==
    /\ pc = "mk_mark" /\ status = "running"
    /\ \E a, b \in 1..Len(mk.primes) :
         a # b /\ mk.cur[a] = mk.cur[b] /\ mk.cur[a] < call.hi

\* The window tasks that are running.
RunningTasks == { a \in 1..Len(sg.tasks) : sg.tasks[a].st = "running" }

\* The step is the merge loop of the 4-argument segmented_sieve.
MergeStep == sg.phase = "join" /\ passes' # passes

\* C13: no container is written by one thread or task while another one
\* that uses it runs.  A slot of prime_vectors changes only in the step in
\* which the one task that owns it ends; the merge loop runs only when
\* every task has been joined; the base primes, also when they are the
\* output of the pass, change only while no window task runs;
\* small_primes changes only in thread t1, and while thread t2 lives the
\* output changes only in t2.
C13_NoSharedWrites ==
    [][ /\ \A a, b \in 1..Len(sg'.tasks) :
             a # b => sg'.tasks[a].slot # sg'.tasks[b].slot
        /\ \A i \in 1..Len(sg.prime_vectors) :
             (sg.phase \in {"launch", "join"} /\ ~MergeStep
                 /\ sg'.prime_vectors[i] # sg.prime_vectors[i])
             => \E a \in RunningTasks :
                  /\ sg.tasks[a].slot = i
                  /\ sg'.tasks[a].st # "running"
                  /\ \A b \in RunningTasks \ {a} :
                       sg'.tasks[b].st = "running"
        /\ MergeStep
           => RunningTasks = {} /\ sg.f > Len(sg.future_manager)
        /\ RunningTasks # {} => base' = base
        /\ small_primes' # small_primes
           => t1.st = "ready" /\ t1'.st = "done" /\ pc = "join"
        /\ (out' # out /\ t2.st \in {"ready", "active"})
           => sg.owner = "t2" /\ MergeStep /\ pc = "join"
      ]_vars

\* C13, its case: the pass that extends the base primes, whose output is
\* the base primes themselves, has joined its tasks and is about to append
\* their primes to the table they read.
C13_Witness ==
    /\ status = "running" /\ sg.phase = "join" /\ sg.dest = "base"
    /\ sg.f > Len(sg.future_manager)
    /\ Concat(sg.prime_vectors) # << >>

\* The window tasks that ended with an exception.
FailedTasks == { a \in 1..Len(sg.tasks) : sg.tasks[a].st = "failed" }

\* C14: once a window task of segmented_sieve has failed the call does not
\* return normally; it ends in the join loop, at the future of a failed
\* task, with the exception raised to its caller; and the output of a call
\* of segmented_sieve is then as it was on entry.
C14_TaskFailureRaised ==
    FailedTasks # {}
    => /\ sg.phase \in {"launch", "join"}
       /\ status # "done" /\ pc # "done"
       /\ (Ended /\ sg.owner = "main")
          => /\ status = "error"
             /\ sg.phase = "join"
             /\ sg.f <= Len(sg.future_manager)
             /\ sg.future_manager[sg.f] \in FailedTasks
       /\ call.op = "segmented_sieve" => out = call.prior

\* C14, its case: segmented_sieve, called on a container that held values,
\* has ended with the error of a failed task while another task had put
\* primes into its buffer.
C14_Witness ==
    /\ call.op = "segmented_sieve" /\ status = "error"
    /\ FailedTasks # {}
    /\ call.prior # << >>
    /\ Concat(sg.prime_vectors) # << >>

\* C15: the parallel branch of prime_sieve (upper_bound above the linear
\* limit) ends after both of its threads have ended, with the container
\* holding what thread t1 computed, the linear sieve of twice the limit,
\* followed by what thread t2 computed, the segmented sieve from there on.
C15_ParallelBranchMerge ==
    (call.op = "prime_sieve" /\ call.policy = "par"
        /\ call.hi > linear_sieve_limit /\ Ended)
    => /\ status = "done"
       /\ t1.st = "done" /\ t2.st = "done"
       /\ LET s == linear_sieve_container(linear_sieve_limit * 2, << >>,
                                          garbage)
              t == segmented_sieve("t2", linear_sieve_limit * 2, call.hi,
                                   call.prior, garbage)
          IN  s.st = "ok" /\ t.st = "ok" /\ out = s.v \o t.v

\* The smallest prime factor of m >= 2.
SmallestFactor(m) == CHOOSE d \in 2..m : m % d = 0 /\ \A e \in 2..(d - 1) : m % e # 0

\* C16: while linear_sieve scans, the table has the indices 0 ..
\* upper_bound, every entry that is set holds the smallest prime factor of
\* its index, and when the scan reaches i the entry of i is unset if and
\* only if i is prime.
C16_LeastDivisorTable ==
    (pc = "ls_loop" /\ status = "running")
    => /\ DOMAIN ls.ld = 0..ls.ub
       /\ \A m \in 2..ls.ub : ls.ld[m] # 0 => ls.ld[m] = SmallestFactor(m)
       /\ ls.i < ls.ub => (ls.ld[ls.i] = 0 <=> IsPrime(ls.i))

\* C17: the trimming scan of prime_range, which reads the elements at the
\* positions 0 .. TrimCount, reads no element at or behind the end of the
\* sequence.
C17_TrimReadsInside ==
    (pc = "trim" /\ status = "running")
    => TrimCount(out, call.lo) < Len(out)

\* The values of s.
Values(s) == { s[a] : a \in 1..Len(s) }

\* primes holds every prime p with p * p < whi.
Covers(primes, whi) ==
    \A p \in 2..whi : (IsPrime(p) /\ p * p < whi) => p \in Values(primes)

\* C18: whenever IntervalSieve sieves a window [wlo, whi), in a window task
\* of segmented_sieve (with the base primes of the pass) or in
\* sequential_segmented_sieve (with the container as it stands), the base
\* primes it is given hold every prime p with p * p < whi.
C18_BasePrimesSuffice ==
    /\ \A a \in RunningTasks : Covers(base, sg.tasks[a].hi)
    /\ (status = "running" /\ pc = "seq" /\ sg.phase = "off"
           /\ passes # << >>)
       => Covers(out, FirstUpper(Head(passes).lo, Head(passes).hi))
    /\ (status = "running" /\ pc = "seq" /\ sg.phase = "seqloop"
           /\ sg.i < sg.ranges)
       => Covers(out, Min(sg.cur_hi + interval, sg.upper))

\* C19: for upper_bound > 2 the container prime_sieve returns with is the
\* one the same call returns with on any other prior contents.
C19_PriorContentsDiscarded ==
    (call.op = "prime_sieve" /\ call.hi > 2 /\ status = "done")
    => \A c \in Prior :
         LET r == prime_sieve(call.policy, call.hi, c, garbage)
         IN  r.st = "ok" => out = r.v

\* C20: with an unsigned Integer of IntegerBits bits and lower_bound <=
\* upper_bound, every window [wlo, whi) sequential_segmented_sieve hands to
\* IntervalSieve satisfies lower_bound <= wlo <= whi <= upper_bound.
C20_FixedWidthWindows ==
    pass.kind = "seq_uint"
    => \A a \in 1..Len(windows) :
         /\ pass.lo <= windows[a][1]
         /\ windows[a][1] <= windows[a][2]
         /\ windows[a][2] <= pass.hi

\* The greatest common divisor of non-negative a and b; 0 for a = b = 0.
Divides(d, n) == n % d = 0

GCD(a, b) ==
    IF a = 0 /\ b = 0 THEN 0
    ELSE CHOOSE d \in 1..Max(a, b) :
           /\ Divides(d, a) /\ Divides(d, b)
           /\ \A e \in 1..Max(a, b) :
                (Divides(e, a) /\ Divides(e, b)) => e <= d

\* C21: for non-negative a and b every overload of Euclid_gcd, the
\* operations supplied being a %= b and !=, ends, and when it has ended
\* the value it returns is the greatest common divisor of a and b, which
\* is a when b = 0 and b when a = 0; until then the greatest common divisor
\* of its two variables is that of its arguments.
C21_EuclidGcd ==
    /\ [](/\ eu.a >= 0 /\ eu.b >= 0
          /\ GCD(eu.a, eu.b) = GCD(call.lo, call.hi)
          /\ status \in {"running", "done"}
          /\ status = "done"
             => /\ eu.a = GCD(call.lo, call.hi)
                /\ call.hi = 0 => eu.a = call.lo
                /\ call.lo = 0 => eu.a = call.hi)
    /\ <>(status = "done")

\* C21, its case: the overload that takes the relation and the modulo
\* operation has returned a common divisor above 1 of two different
\* arguments above it, the first the smaller.
C21_Witness ==
    /\ call.op = "Euclid_gcd_relation" /\ status = "done"
    /\ call.lo < call.hi
    /\ eu.a > 1 /\ eu.a < call.lo

=============================================================================
